---------------------------- MODULE Spec2Model ----------------------------
(***************************************************************************)
(* Model of the bluefairy WebSocket relay (app/api/endpoints/ws.py) and    *)
(* the services it drives: the auth service (session token -> user), the   *)
(* session service (user -> OpenClaw session key), the OpenClaw streaming  *)
(* client (SSE lines -> text fragments) and the conversation service.      *)
(*                                                                         *)
(* Python text is a sequence of one-character strings, so that strip() and *)
(* += act on it as they do in the code.  A JSON value is a record          *)
(* [t, v]: t says what kind of value it is and v holds the text of a       *)
(* string value.                                                           *)
(***************************************************************************)
EXTENDS Integers, Sequences, FiniteSets, TLC

\* ------------------------------------------------------------------ bounds
\* Inbound frames one connection reads.
MaxFrames == 2
\* Response lines the upstream sends for one message.
MaxLines == 2

\* ------------------------------------------------------------- JSON values
Str(s) == [t |-> "str", v |-> s]
Num == [t |-> "num", v |-> <<>>]
Null == [t |-> "null", v |-> <<>>]
Absent == [t |-> "absent", v |-> <<>>]

\* Python truthiness of a value fetched with dict.get: a missing key and
\* null give None, a string is true when non-empty, the number is non-zero.
Truthy(val) == \/ val.t = "num"
               \/ val.t = "str" /\ val.v # <<>>

\* ------------------------------------------------------------------- text
IsSpace(ch) == ch = " "

RECURSIVE LStrip(_)
LStrip(s) == IF s # <<>> /\ IsSpace(Head(s)) THEN LStrip(Tail(s)) ELSE s

RECURSIVE RStrip(_)
RStrip(s) == IF s # <<>> /\ IsSpace(s[Len(s)])
             THEN RStrip(SubSeq(s, 1, Len(s) - 1))
             ELSE s

\* str.strip()
Strip(s) == RStrip(LStrip(s))

\* ---------------------------------------------------------- inbound frames
\* A raw inbound text frame, by what json.loads makes of it: json is
\* "invalid" (JSONDecodeError), "number", "string", "list", "null" or
\* "object"; for an object, type names the value under "type" and content
\* is the value under "content".
Frame(j, ty, c) == [json |-> j, type |-> ty, content |-> c]

\* The "type" value is "ping", "message", another string ("subscribe") or
\* "None" for a missing key (msg.get gives None).
Contents == {Absent, Null, Num, Str(<<>>), Str(<<" ">>), Str(<<"h">>),
             Str(<<" ", "h", " ">>)}

Frames == {Frame("invalid", "None", Absent), Frame("number", "None", Absent),
           Frame("list", "None", Absent),
           Frame("object", "ping", Absent),
           Frame("object", "subscribe", Absent),
           Frame("object", "None", Str(<<"h">>))}
          \cup {Frame("object", "message", c) : c \in Contents}

\* ----------------------------------------------------------- upstream lines
\* One line of the SSE response: data says whether it starts with "data:",
\* p what the stripped payload is: "empty", "raw" (not JSON, text v),
\* "jstr" (a JSON string, value v), "jobj" (a JSON object with the values
\* text, content, chunk), "jother" (any other JSON value).
Line(d, p, v, tx, co, ch) ==
    [data |-> d, p |-> p, v |-> v, text |-> tx, content |-> co, chunk |-> ch]

NonDataLine == Line(FALSE, "raw", <<"e">>, Absent, Absent, Absent)
RawLine(s) == Line(TRUE, "raw", s, Absent, Absent, Absent)
JStrLine(s) == Line(TRUE, "jstr", s, Absent, Absent, Absent)
JObjLine(tx, co, ch) == Line(TRUE, "jobj", <<>>, tx, co, ch)
EmptyLine == Line(TRUE, "empty", <<>>, Absent, Absent, Absent)
JOtherLine == Line(TRUE, "jother", <<>>, Absent, Absent, Absent)

NoFrag == [t |-> "none", v |-> <<>>]

\* Mutant of line 70: the first field that is there decides, empty or not.
FirstPresentOnly(line) ==
    IF line.text.t # "absent" THEN line.text
    ELSE IF line.content.t # "absent" THEN line.content
    ELSE IF line.chunk.t # "absent" THEN line.chunk
    ELSE Str(<<>>)

\* data.get("text") or data.get("content") or data.get("chunk") or ""
FirstTruthy(line) ==
    IF Truthy(line.text) THEN line.text
    ELSE IF Truthy(line.content) THEN line.content
    ELSE IF Truthy(line.chunk) THEN line.chunk
    ELSE Str(<<>>)

\* Mutant of lines 54-55: the data marker is not looked at.
LineFragmentAnyLine(line) ==
    IF line.p = "empty" THEN NoFrag
    ELSE IF line.p = "raw"
         THEN (IF Strip(line.v) = <<>> THEN NoFrag ELSE Str(Strip(line.v)))
    ELSE IF line.p = "jobj"
         THEN (IF Truthy(FirstTruthy(line)) THEN FirstTruthy(line) ELSE NoFrag)
    ELSE IF line.p = "jstr" THEN Str(line.v)
    ELSE NoFrag

\* What send_message yields for one response line: NoFrag for nothing.  For
\* a payload that json.loads rejects, v is the text after the marker, and
\* the fragment is that text stripped (lines 57-66).
LineFragment(line) ==
    IF ~line.data THEN NoFrag
    ELSE IF line.p = "empty" THEN NoFrag
    ELSE IF line.p = "raw"
         THEN (IF Strip(line.v) = <<>> THEN NoFrag ELSE Str(Strip(line.v)))
    ELSE IF line.p = "jobj"
         THEN (IF Truthy(FirstTruthy(line)) THEN FirstTruthy(line) ELSE NoFrag)
    ELSE IF line.p = "jstr" THEN Str(line.v)
    ELSE NoFrag

\* The response lines the upstream sends in the relay specification.
StreamLines == {NonDataLine, RawLine(<<"x">>),
                JObjLine(Str(<<"y">>), Absent, Absent),
                JObjLine(Num, Absent, Absent)}


\* ------------------------------------------------------------ identities
Users == {"u1", "u2"}
NoUser == "no-user"

\* A request carries no token (None), an empty one, or a token string.
NoToken == "no-token"
\* The value of query and cookie once the endpoint can no longer read them.
Forgotten == "forgotten"
Tokens == {"t1", "tx"}
TokenInputs == {NoToken, ""} \cup Tokens

NoKey == "no-key"

WS_1008_POLICY_VIOLATION == 1008

\* --------------------------------------------------------------- state
VARIABLES
    \* the stores
    sessions,       \* redis "session:<token>" -> user id (NoUser: no entry)
    oc_sessions,    \* redis "openclaw_session:<user>" -> session key
    redisUp,        \* whether redis answers
    conversations,  \* rows of the conversations table, in insertion order
    \* the connection and its client
    query, cookie,  \* the token inputs of the connection request
    connected,      \* the client has not gone away
    accepted,       \* websocket.accept() was called
    validated,      \* the user the session store resolved the token to
    closeCode,      \* the code of websocket.close(), 0 while it was not called
    ending,         \* how the endpoint ended: "open", "rejected" (close before
                    \* accept), "disconnect" (WebSocketDisconnect caught),
                    \* "error" (an exception left the endpoint)
    \* locals of websocket_endpoint
    pc, user_id, session_key, content, full_response,
    linesRead,      \* response lines send_message has read for this message
    \* history
    frameNo,        \* inbound frames read so far
    out,            \* events sent to the client, each with the frame it answers
    upstream,       \* calls of send_message, each with what it yielded
    archive,        \* calls of create_conversation
    resolverCalls,  \* calls of get_or_create_session
    \* the services called on their own (no connection)
    callers,        \* get_or_create_session calls, one record per caller
    issued,         \* per token: the user create_session made it for, and
                    \* whether it was neither deleted nor expired since
    lookups,        \* per token: the last get_session call and its result
    http,           \* the last response of the sign-in endpoint
    response,       \* the lines of an upstream response send_message reads
    fragments,      \* what send_message yielded for each line read so far
    writers,        \* create_conversation calls, one record per connection
    oauth_states,   \* redis "oauth_state:<state>" -> user id
    connectors,     \* redis "token_<provider>:<user>" entries that exist
    callbacks       \* OAuth callback requests, one record per request

vars == <<sessions, oc_sessions, redisUp, conversations, query, cookie,
          connected, accepted, validated, closeCode, ending, pc, user_id,
          session_key, content, full_response, linesRead, frameNo, out,
          upstream, archive, resolverCalls, callers, issued, lookups, http,
          response, fragments, writers, oauth_states, connectors, callbacks>>

storeVars == <<sessions, oc_sessions, redisUp, conversations>>
connVars == <<query, cookie, connected, accepted, validated, closeCode,
              ending>>
localVars == <<user_id, session_key, content, full_response, linesRead>>
histVars == <<frameNo, out, upstream, archive, resolverCalls>>
lineVars == <<response, fragments>>
oauthVars == <<oauth_states, connectors, callbacks>>
restVars == <<lineVars, writers, oauthVars>>
svcVars == <<callers, issued, lookups, http, restVars>>

\* ----------------------------------------------------------- auth service
\* AuthService.get_session: the redis entry of the token, then the user row.
GetSession(token) ==
    IF sessions[token] \in Users THEN sessions[token] ELSE NoUser

\* Mutant of get_session: a store that does not answer is not noticed, and
\* the lookup answers from what it held before.
GetSessionRaisesNever == FALSE

\* AuthService.get_session, lines 56-57: the redis get raises when redis
\* does not answer, and nothing on the way to the endpoint catches it.
GetSessionRaises == ~redisUp

\* _authenticate_ws: the query token unless it is missing or empty, else
\* the cookie; the user id the token resolves to, or NoUser.
Falsy(tok) == tok = NoToken \/ tok = ""

\* Mutant of lines 32-34: the cookie is taken first, the query parameter
\* when there is no cookie.
ChosenTokenCookieFirst(q, ck) == IF Falsy(ck) THEN q ELSE ck

ChosenToken(q, ck) == IF Falsy(q) THEN ck ELSE q

\* Mutants of _authenticate_ws: a missing token taken for the default user;
\* a present token trusted without the lookup.
AuthenticateWsAnonymous(q, ck) ==
    IF Falsy(ChosenToken(q, ck)) THEN "u1"
    ELSE GetSession(ChosenToken(q, ck))

AuthenticateWsNoLookup(q, ck) ==
    IF Falsy(ChosenToken(q, ck)) THEN NoUser ELSE "u1"

AuthenticateWs(q, ck) ==
    IF Falsy(ChosenToken(q, ck)) THEN NoUser
    ELSE GetSession(ChosenToken(q, ck))

\* -------------------------------------------------------- session service
\* Mutant of create_session_key: a key that differs from call to call (the
\* number of calls returned so far stands for a random part).
CreateSessionKeyRandom(u) ==
    "bluefairy:" \o u \o ":" \o
    ToString(Cardinality({c \in DOMAIN callers : callers[c].pc = "done"}))

\* Mutant of create_session_key: the key does not carry the user id.
CreateSessionKeyShared(u) == "bluefairy:session"

\* OpenClawService.create_session_key
CreateSessionKey(u) == "bluefairy:" \o u

\* SessionService.get_or_create_session: the key it returns
GetOrCreateSession(u) ==
    IF oc_sessions[u] # NoKey THEN oc_sessions[u] ELSE CreateSessionKey(u)

\* ------------------------------------------------------ conversation service
Entry(role, text) == [role |-> role, content |-> text]

RowsOf(key) == {i \in 1..Len(conversations) : conversations[i].session_id = key}

\* Lines 34-46 of create_conversation, with what the lookup of line 27 gave:
\* for an existing row the entries go to the loaded object only and the
\* table stays as it is; otherwise a row is inserted and committed.
CreateOrAppend(existing, u, key, userMsg, assistantMsg) ==
    IF existing THEN conversations
    ELSE Append(conversations,
                [user_id |-> u, session_id |-> key,
                 messages |-> <<Entry("user", userMsg),
                                Entry("assistant", assistantMsg)>>])

\* ConversationService.create_conversation against a reachable database:
\* "raise" when the lookup finds several rows (scalar_one_or_none), the
\* table unchanged when one row exists (the entries are added to the loaded
\* object only, no session commits them), a new row otherwise.
CreateConversation(u, key, userMsg, assistantMsg) ==
    IF Cardinality(RowsOf(key)) > 1 THEN conversations
    ELSE CreateOrAppend(Cardinality(RowsOf(key)) = 1, u, key, userMsg,
                        assistantMsg)

\* ------------------------------------------------------------------ events
\* An outbound event, with the inbound frame it answers.
Event(k, ty, c, m) == [frame |-> k, type |-> ty, content |-> c, message |-> m]
Pong(k) == Event(k, "pong", <<>>, "")
Chunk(k, c) == Event(k, "chunk", c, "")
Done(k, c) == Event(k, "done", c, "")
Error(k, m) == Event(k, "error", <<>>, m)

\* Mutant of line 132: the message does not carry the type.
UnknownTypeMessageBare(ty) == "Unknown message type"

\* The "type" value as the f-string of line 132 prints it.
UnknownTypeMessage(ty) == "Unknown message type: " \o ty

\* Lines 118-127: the message of the handler that takes an exception of the
\* streaming block.
ErrorMessageFor(exc) ==
    IF exc = "OpenClawAPIException" THEN "Failed to get response from AI"
    ELSE "Internal server error"

\* Mutant of send_message: a timeout is caught and raised again as the
\* typed upstream error.
TimeoutRaisesWrapped == "OpenClawAPIException"

\* openclaw.py lines 33-53: a connect or read timeout of httpx (and any
\* transport error) leaves send_message as the exception httpx raised; no
\* handler there takes it.
TimeoutRaises == "TimeoutException"

\* Mutant of line 98: the chunk put in front of the text so far.
AccumulateReversed(full, chunk) == chunk \o full

\* Line 98: full_response += chunk
Accumulate(full, chunk) == full \o chunk

\* The record of the send_message call in progress.
Call == upstream[Len(upstream)]

\* The session store holds a token of the user.
HasLiveToken(u) == \E t \in DOMAIN sessions : sessions[t] = u

\* Mutant of line 96: the key is resolved again for every message.
NewCallResolving(k, msg) ==
    [frame |-> k, key |-> GetOrCreateSession(user_id), message |-> msg,
     status |-> "open", frags |-> <<>>, sendFailed |-> FALSE,
     stored |-> oc_sessions[user_id], live |-> HasLiveToken(user_id)]

\* Lines 95-97: the call of send_message for the frame being handled, with
\* the key it passes; stored notes what the store held for the user then,
\* live whether the user had a session token then.
NewCall(k, msg) ==
    [frame |-> k, key |-> session_key, message |-> msg, status |-> "open",
     frags |-> <<>>, sendFailed |-> FALSE, stored |-> oc_sessions[user_id],
     live |-> HasLiveToken(user_id)]

\* The call record after a step: its status, the fragment it yielded if any,
\* and whether the send_json of that step raised.
CallStep(status, yielded, failed) ==
    [upstream EXCEPT ![Len(upstream)] =
        [@ EXCEPT !.status = status,
                  !.frags = @ \o yielded,
                  !.sendFailed = failed]]

\* websocket.send_json in an exception handler of the streaming block (lines
\* 120 and 125): the event reaches a connected client; with the client gone
\* the send raises WebSocketDisconnect, which lines 135-136 take.
SendJson(e, nextPc) ==
    IF connected
    THEN /\ out' = Append(out, e)
         /\ pc' = nextPc
         /\ ending' = ending
    ELSE /\ out' = out
         /\ pc' = "closed"
         /\ ending' = "disconnect"

\* Mutant of the streaming send: a send to a client that is gone is dropped
\* without an exception.
SendJsonStreamingNoRaise(e, nextPc) ==
    /\ out' = IF connected THEN Append(out, e) ELSE out
    /\ pc' = nextPc
    /\ ending' = ending

\* websocket.send_json inside the streaming try block (lines 99 and 103):
\* with the client gone the send raises, line 123 takes it and the send_json
\* of line 125 raises again, out of the endpoint.
SendJsonStreaming(e, nextPc) ==
    IF connected
    THEN /\ out' = Append(out, e)
         /\ pc' = nextPc
         /\ ending' = ending
    ELSE /\ out' = out
         /\ pc' = "closed"
         /\ ending' = "error"

\* Mutant of lines 109-114: the two messages passed in each other's place.
ExchangeArgsSwapped(raised) ==
    [frame |-> frameNo, user_id |-> user_id, session_id |-> session_key,
     user_message |-> full_response, assistant_message |-> content,
     raised |-> raised]

\* Lines 109-114: the arguments of create_conversation, with whether the
\* call raised.
ExchangeArgs(raised) ==
    [frame |-> frameNo, user_id |-> user_id, session_id |-> session_key,
     user_message |-> content, assistant_message |-> full_response,
     raised |-> raised]

\* Mutant of lines 115-116: the archive failure reported to the client.
OnArchiveFailureReported == <<Error(frameNo, "Internal server error")>>

\* Lines 115-116: what the relay sends when create_conversation raises.
OnArchiveFailure == <<>>

\* The line reader, the archive writers and the OAuth endpoints are not
\* part of the run.
NoOtherService ==
    /\ response = <<>>
    /\ fragments = <<>>
    /\ writers = <<>>
    /\ oauth_states = <<>>
    /\ connectors = {}
    /\ callbacks = <<>>

\* ------------------------------------------------------------------- Init
Init ==
    /\ sessions = [t \in Tokens |-> IF t = "t1" THEN "u1" ELSE NoUser]
    /\ oc_sessions \in {[u \in Users |-> NoKey],
                       [u \in Users |-> IF u = "u1" THEN CreateSessionKey(u)
                                                    ELSE NoKey]}
    /\ redisUp \in BOOLEAN
    /\ conversations = <<>>
    /\ query \in TokenInputs
    /\ cookie \in TokenInputs
    /\ connected = TRUE
    /\ accepted = FALSE
    /\ validated = NoUser
    /\ closeCode = 0
    /\ ending = "open"
    /\ pc = "connecting"
    /\ user_id = NoUser
    /\ session_key = NoKey
    /\ content = <<>>
    /\ full_response = <<>>
    /\ linesRead = 0
    /\ frameNo = 0
    /\ out = <<>>
    /\ upstream = <<>>
    /\ archive = <<>>
    /\ resolverCalls = 0
    /\ callers = <<>>
    /\ issued = <<>>
    /\ lookups = <<>>
    /\ http = <<>>
    /\ NoOtherService

\* --------------------------------------------------- websocket_endpoint
\* Lines 53-59: authenticate, then close with 1008 or accept.  A redis that
\* does not answer makes get_session raise, and the exception leaves the
\* endpoint before accept.
Authenticate ==
    /\ pc = "connecting"
    /\ IF ~Falsy(ChosenToken(query, cookie)) /\ GetSessionRaises
       THEN /\ pc' = "closed"
            /\ ending' = "error"
            /\ UNCHANGED <<accepted, validated, closeCode, user_id>>
       ELSE /\ validated' = IF Falsy(query) /\ Falsy(cookie) THEN NoUser
                            ELSE IF Falsy(query) THEN GetSession(cookie)
                            ELSE GetSession(query)
            /\ IF AuthenticateWs(query, cookie) = NoUser
               THEN /\ pc' = "closed"
                    /\ ending' = "rejected"
                    /\ closeCode' = WS_1008_POLICY_VIOLATION
                    /\ UNCHANGED <<accepted, user_id>>
               ELSE /\ pc' = "accepted"
                    /\ accepted' = TRUE
                    /\ user_id' = AuthenticateWs(query, cookie)
                    /\ UNCHANGED <<closeCode, ending>>
    /\ UNCHANGED <<svcVars, storeVars, query, cookie, connected, session_key, content,
                   full_response, linesRead, histVars>>

\* Line 63: resolve the session key once.  It runs before the try block, so
\* an exception of the store leaves the endpoint.  The token inputs are read
\* by _authenticate_ws alone; the model forgets them here.
ResolveSession ==
    /\ pc = "accepted"
    /\ resolverCalls' = resolverCalls + 1
    /\ IF redisUp
       THEN /\ session_key' = GetOrCreateSession(user_id)
            /\ oc_sessions' = [oc_sessions EXCEPT ![user_id] =
                                   GetOrCreateSession(user_id)]
            /\ pc' = "ready"
            /\ ending' = ending
       ELSE /\ pc' = "closed"
            /\ ending' = "error"
            /\ UNCHANGED <<session_key, oc_sessions>>
    /\ query' = Forgotten
    /\ cookie' = Forgotten
    /\ UNCHANGED <<svcVars, sessions, redisUp, conversations, connected, accepted,
                   validated, closeCode, user_id, content, full_response,
                   linesRead, frameNo, out, upstream, archive>>

\* Mutant of lines 69-75: the JSONDecodeError is not caught.
OnJSONDecodeErrorUncaught == "raise"

\* Lines 69-75: json.loads raises JSONDecodeError, the handler answers and
\* continues the loop.
OnJSONDecodeError == "invalid-json"

\* Mutant of line 80: no keepalive branch.
IsPingNever(ty) == FALSE

\* Line 80: msg_type == "ping"
IsPing(ty) == ty = "ping"

\* Mutant of lines 86-87: the content is tested without .strip().
EmptyContentNoStrip(c) == c = <<>>

\* Lines 86-87: `not content` after .strip()
EmptyContent(c) == Strip(c) = <<>>

\* Lines 67-133 for one frame, up to the call of send_message: what the
\* frame makes the loop do.  "raise" is an exception that no handler of the
\* endpoint takes (msg.get on a value that is no dict, .strip() on a value
\* that is no string).
Dispatch(f) ==
    IF f.json = "invalid" THEN OnJSONDecodeError
    ELSE IF f.json # "object" THEN "raise"
    ELSE IF IsPing(f.type) THEN "pong"
    ELSE IF f.type = "message"
         THEN (IF f.content.t = "absent" THEN "empty"
               ELSE IF f.content.t # "str" THEN "raise"
               ELSE IF EmptyContent(f.content.v) THEN "empty"
               ELSE "stream")
    ELSE "unknown"

\* Mutant of the loop: the next frame read while a message is streaming.
CanReceiveWhileStreaming == pc \in {"ready", "streaming"}

\* Line 67 is the one place where the endpoint reads a frame.
CanReceive == pc = "ready"

\* Line 67 returns a frame; lines 69-133 handle it up to the first await of
\* the upstream.
Receive(f) ==
    /\ CanReceive
    /\ connected
    /\ frameNo < MaxFrames
    /\ frameNo' = frameNo + 1
    /\ LET k == frameNo + 1
       IN CASE Dispatch(f) = "invalid-json" ->
                 /\ out' = Append(out, Error(k, "Invalid JSON"))
                 /\ UNCHANGED <<pc, ending, content, full_response, linesRead,
                                upstream>>
            [] Dispatch(f) = "pong" ->
                 /\ out' = Append(out, Pong(k))
                 /\ UNCHANGED <<pc, ending, content, full_response, linesRead,
                                upstream>>
            [] Dispatch(f) = "empty" ->
                 /\ out' = Append(out, Error(k, "Empty message"))
                 /\ content' = <<>>
                 /\ UNCHANGED <<pc, ending, full_response, linesRead, upstream>>
            [] Dispatch(f) = "unknown" ->
                 /\ out' = Append(out, Error(k, UnknownTypeMessage(f.type)))
                 /\ UNCHANGED <<pc, ending, content, full_response, linesRead,
                                upstream>>
            [] Dispatch(f) = "raise" ->
                 /\ pc' = "closed"
                 /\ ending' = "error"
                 /\ UNCHANGED <<out, content, full_response, linesRead,
                                upstream>>
            [] Dispatch(f) = "stream" ->
                 /\ content' = Strip(f.content.v)
                 /\ full_response' = <<>>
                 /\ linesRead' = 0
                 /\ upstream' = Append(upstream, NewCall(k, Strip(f.content.v)))
                 /\ pc' = "calling"
                 /\ UNCHANGED <<out, ending>>
    /\ UNCHANGED <<svcVars, storeVars, query, cookie, connected, accepted, validated,
                   closeCode, user_id, session_key, archive, resolverCalls>>


\* Line 67 with the client gone: receive_text raises WebSocketDisconnect,
\* lines 135-136 end the endpoint.
ReceiveDisconnect ==
    /\ pc = "ready"
    /\ ~connected
    /\ pc' = "closed"
    /\ ending' = "disconnect"
    /\ UNCHANGED <<svcVars, storeVars, query, cookie, connected, accepted, validated,
                   closeCode, localVars, histVars>>

\* Mutant of send_message: the response status is not looked at, and the body
\* of an error response is read as a stream.
UpstreamRespondNoStatusCheck(result) ==
    /\ pc = "calling"
    /\ CASE result \in {"ok", "http_error"} ->
              /\ upstream' = CallStep(IF result = "ok" THEN "streaming"
                                                       ELSE "http_error",
                                      <<>>, FALSE)
              /\ pc' = "streaming"
              /\ UNCHANGED <<out, ending>>
         [] result = "failed" ->
              /\ upstream' = CallStep("failed", <<>>, ~connected)
              /\ SendJson(Error(Call.frame, ErrorMessageFor(TimeoutRaises)),
                          "ready")
    /\ UNCHANGED <<svcVars, storeVars, query, cookie, connected, accepted, validated,
                   closeCode, localVars, frameNo, archive, resolverCalls>>

\* Lines 95-97 up to the response status (openclaw.py lines 36-51): the
\* upstream answers 200, answers another status (OpenClawAPIException, taken
\* at line 118), or the request fails in httpx (a timeout or a transport
\* error, taken at line 123).
UpstreamRespond(result) ==
    /\ pc = "calling"
    /\ CASE result = "ok" ->
              /\ upstream' = CallStep("streaming", <<>>, FALSE)
              /\ pc' = "streaming"
              /\ UNCHANGED <<out, ending>>
         [] result = "http_error" ->
              /\ upstream' = CallStep("http_error", <<>>, ~connected)
              /\ SendJson(Error(Call.frame,
                                ErrorMessageFor("OpenClawAPIException")),
                          "ready")
         [] result = "failed" ->
              /\ upstream' = CallStep("failed", <<>>, ~connected)
              /\ SendJson(Error(Call.frame, ErrorMessageFor(TimeoutRaises)),
                          "ready")
    /\ UNCHANGED <<svcVars, storeVars, query, cookie, connected, accepted, validated,
                   closeCode, localVars, frameNo, archive, resolverCalls>>

\* One response line (openclaw.py lines 53-74) and, when it yields a
\* fragment, lines 98-101 of the relay.  A fragment that is no string makes
\* "full_response += chunk" raise TypeError, taken at line 123.
StreamLine(l) ==
    /\ pc = "streaming"
    /\ linesRead < MaxLines
    /\ linesRead' = linesRead + 1
    /\ LET frag == LineFragment(l)
       IN CASE frag = NoFrag ->
                 /\ UNCHANGED <<out, pc, ending, full_response, upstream>>
            [] frag.t = "str" ->
                 /\ full_response' = Accumulate(full_response, frag.v)
                 /\ SendJsonStreaming(Chunk(Call.frame, frag.v), "streaming")
                 /\ upstream' = CallStep(IF connected THEN "streaming"
                                                      ELSE "abandoned",
                                         <<frag>>, ~connected)
            [] frag.t = "num" ->
                 /\ upstream' = CallStep("abandoned", <<frag>>, ~connected)
                 /\ SendJson(Error(Call.frame, ErrorMessageFor("Exception")),
                             "ready")
                 /\ UNCHANGED full_response
    /\ UNCHANGED <<svcVars, storeVars, query, cookie, connected, accepted, validated,
                   closeCode, user_id, session_key, content, frameNo, archive,
                   resolverCalls>>

\* Mutant of lines 107-114: an empty response is not archived.
StreamEndSkipEmpty ==
    /\ pc = "streaming"
    /\ upstream' = CallStep("ok", <<>>, ~connected)
    /\ SendJsonStreaming(Done(Call.frame, full_response),
                         IF full_response = <<>> THEN "ready" ELSE "archiving")
    /\ UNCHANGED <<svcVars, storeVars, query, cookie, connected, accepted,
                   validated, closeCode, localVars, frameNo, archive,
                   resolverCalls>>

\* The response ends: the generator is exhausted and lines 103-105 send the
\* done event.
StreamEnd ==
    /\ pc = "streaming"
    /\ upstream' = CallStep("ok", <<>>, ~connected)
    /\ SendJsonStreaming(Done(Call.frame, full_response), "archiving")
    /\ UNCHANGED <<svcVars, storeVars, query, cookie, connected, accepted, validated,
                   closeCode, localVars, frameNo, archive, resolverCalls>>

\* Mutant of line 123: the failure is dropped without an error event.
StreamFailSilent ==
    /\ pc = "streaming"
    /\ upstream' = CallStep("failed", <<>>, ~connected)
    /\ pc' = "ready"
    /\ UNCHANGED <<svcVars, storeVars, connVars, localVars, frameNo, out, archive,
                   resolverCalls>>

\* The response breaks off (a read timeout or a transport error of httpx,
\* which send_message does not catch): line 123 takes it.
StreamFail ==
    /\ pc = "streaming"
    /\ upstream' = CallStep("failed", <<>>, ~connected)
    /\ SendJson(Error(Call.frame, ErrorMessageFor(TimeoutRaises)), "ready")
    /\ UNCHANGED <<svcVars, storeVars, query, cookie, connected, accepted, validated,
                   closeCode, localVars, frameNo, archive, resolverCalls>>

\* Lines 108-116: persist the exchange; any exception is logged and dropped.
\* dbOk says whether the database answers.
PersistExchange(dbOk) ==
    /\ pc = "archiving"
    /\ LET raised == ~dbOk \/ Cardinality(RowsOf(session_key)) > 1
       IN /\ archive' = Append(archive, ExchangeArgs(raised))
          /\ out' = IF raised THEN out \o OnArchiveFailure ELSE out
    /\ conversations' = IF dbOk
                        THEN CreateConversation(user_id, session_key, content,
                                                full_response)
                        ELSE conversations
    /\ pc' = "ready"
    /\ UNCHANGED <<svcVars, sessions, oc_sessions, redisUp, connVars, localVars,
                   frameNo, upstream, resolverCalls>>

\* ------------------------------------------------------------ environment
\* The client goes away (closes the socket or loses the network).
ClientDisconnect ==
    /\ accepted
    /\ connected
    /\ pc # "closed"
    /\ connected' = FALSE
    /\ UNCHANGED <<svcVars, storeVars, query, cookie, accepted, validated, closeCode,
                   ending, pc, localVars, histVars>>

\* --------------------------------------------------------- specifications
UpstreamStep ==
    \/ \E r \in {"ok", "http_error", "failed"} : UpstreamRespond(r)
    \/ \E l \in StreamLines : StreamLine(l)
    \/ StreamEnd
    \/ StreamFail

Persist == \E dbOk \in BOOLEAN : PersistExchange(dbOk)

Next ==
    \/ Authenticate
    \/ ResolveSession
    \/ \E f \in Frames : Receive(f)
    \/ ReceiveDisconnect
    \/ UpstreamStep
    \/ Persist
    \/ ClientDisconnect

Spec == Init /\ [][Next]_vars

\* The event loop runs every task that can run, and the upstream answers,
\* sends its next line or ends (its response is finite, and httpx times out
\* otherwise).
FairSpec == Spec /\ WF_vars(UpstreamStep) /\ WF_vars(Persist)


\* ------------------------------------------------------ reading the history
Range(q) == {q[i] : i \in DOMAIN q}

\* The events sent in answer to frame k, in the order they were sent.
EventsOf(k) == SelectSeq(out, LAMBDA e : e.frame = k)

\* The calls of create_conversation made for frame k.
ArchiveOf(k) == SelectSeq(archive, LAMBDA a : a.frame = k)

\* f1 + ... + fN of a sequence of string fragments.
RECURSIVE Concat(_)
Concat(frags) == IF frags = <<>> THEN <<>>
                 ELSE Head(frags).v \o Concat(Tail(frags))

\* One chunk event per fragment of a call, in the order of the fragments.
ChunkEvents(c) == [j \in 1..Len(c.frags) |-> Chunk(c.frame, c.frags[j].v)]

Busy == {"calling", "streaming", "archiving"}

\* C1: when the fragment sequence of a message ends normally (and the client
\* is there to take the done event), the events of that message are exactly
\* one chunk per fragment, in fragment order, then one done event whose
\* fullContent is the concatenation of the fragments; while the stream runs
\* the events are exactly the chunks of the fragments yielded so far.
C1_ChunksThenDone ==
    \A i \in DOMAIN upstream :
        LET c == upstream[i]
        IN /\ (c.status = "ok" /\ ~c.sendFailed) =>
                EventsOf(c.frame) =
                    ChunkEvents(c) \o <<Done(c.frame, Concat(c.frags))>>
           /\ c.status = "streaming" => EventsOf(c.frame) = ChunkEvents(c)

C1_Witness ==
    \E i \in DOMAIN upstream :
        /\ upstream[i].status = "ok"
        /\ ~upstream[i].sendFailed
        /\ Len(upstream[i].frags) = 2
        /\ upstream[i].frags[1] # upstream[i].frags[2]
        /\ Len(EventsOf(upstream[i].frame)) = 3

\* C2: a connection that has read a frame, sent an event, called the
\* upstream or called the archive, or that is in the dispatch loop, was
\* accepted after the session store resolved its token to the user it runs as.
C2_ActivityOnlyAfterValidation ==
    (\/ frameNo > 0
     \/ out # <<>>
     \/ upstream # <<>>
     \/ archive # <<>>
     \/ pc \in {"ready"} \cup Busy)
    => (validated \in Users /\ user_id = validated /\ accepted)

C2_Witness ==
    /\ frameNo > 0
    /\ out # <<>>
    /\ upstream # <<>>
    /\ archive # <<>>
    /\ validated = "u1"

\* C3: a connection with no token, or with a token for which the answering
\* session store has no user, is closed with code 1008 without being
\* accepted, and get_or_create_session is not called for it.
C3_RejectedBeforeAccept ==
    LET noToken == Falsy(query) /\ Falsy(cookie)
        tok == IF Falsy(query) THEN cookie ELSE query
    IN (/\ pc # "connecting"
        /\ query \in TokenInputs
        /\ noToken \/ (redisUp /\ sessions[tok] \notin Users))
       => (/\ pc = "closed"
           /\ ending = "rejected"
           /\ closeCode = 1008
           /\ ~accepted
           /\ resolverCalls = 0
           /\ frameNo = 0
           /\ out = <<>>)

C3_Witness ==
    /\ ending = "rejected"
    /\ query = "tx"
    /\ closeCode = 1008

\* C4: for a message whose stream ended normally and whose done event was
\* sent, create_conversation is called exactly once, after the done event,
\* with the connection's user, the cached session key, the user message as
\* it went upstream and the fullContent of the done event.
C4_ArchivedOnceAfterDone ==
    /\ \A i \in DOMAIN upstream :
          LET c == upstream[i]
              calls == ArchiveOf(c.frame)
          IN (c.status = "ok" /\ ~c.sendFailed) =>
                IF c.frame = frameNo /\ pc = "archiving"
                THEN calls = <<>>
                ELSE /\ Len(calls) = 1
                     /\ calls[1].user_id = validated
                     /\ calls[1].session_id = c.key
                     /\ calls[1].session_id = session_key
                     /\ calls[1].user_message = c.message
                     /\ calls[1].assistant_message = Concat(c.frags)
    /\ \A j \in DOMAIN archive :
          /\ Done(archive[j].frame, archive[j].assistant_message) \in Range(out)
          /\ \E i \in DOMAIN upstream :
                upstream[i].frame = archive[j].frame /\ upstream[i].status = "ok"

C4_Witness ==
    /\ Len(archive) = 1
    /\ archive[1].assistant_message = <<"x", "y">>
    /\ archive[1].user_message = <<"h">>
    /\ pc = "ready"


\* C5: when the upstream answers a message with a non-success status (and
\* the client is there), the events of that message are exactly one error
\* event, with no chunk and no done, and create_conversation is not called
\* for it.
C5_HttpErrorOneError ==
    \A i \in DOMAIN upstream :
        LET c == upstream[i]
            ev == EventsOf(c.frame)
        IN (c.status = "http_error" /\ ~c.sendFailed) =>
              /\ Len(ev) = 1
              /\ ev[1].type = "error"
              /\ c.frags = <<>>
              /\ ArchiveOf(c.frame) = <<>>

C5_Witness ==
    \E i \in DOMAIN upstream :
        /\ upstream[i].status = "http_error"
        /\ ~upstream[i].sendFailed
        /\ upstream[i].frame < frameNo
        /\ Len(EventsOf(upstream[i].frame)) = 1

\* C6: when create_conversation raises for a message, the client has the
\* done event with the concatenation of the fragments as the last event of
\* that message, no error event was sent for it, and the endpoint is back at
\* the read of the next frame (or ended by the client's disconnect there).
C6_ArchiveFailureInvisible ==
    \A j \in DOMAIN archive :
        LET k == archive[j].frame
            ev == EventsOf(k)
        IN archive[j].raised =>
              /\ \E i \in DOMAIN upstream :
                    /\ upstream[i].frame = k
                    /\ ev = ChunkEvents(upstream[i])
                              \o <<Done(k, Concat(upstream[i].frags))>>
              /\ \A n \in DOMAIN ev : ev[n].type # "error"
              /\ k = frameNo =>
                    \/ pc = "ready"
                    \/ pc = "closed" /\ ending = "disconnect" /\ ~connected

C6_Witness ==
    \E j \in DOMAIN archive :
        /\ archive[j].raised
        /\ archive[j].assistant_message # <<>>
        /\ archive[j].frame < frameNo
        /\ Range(EventsOf(frameNo)) # {}
        /\ conversations = <<>>

\* C7: a connection in the dispatch loop ends only by the client's
\* disconnect; no frame and no upstream or archive failure ends it.
C7_OnlyDisconnectCloses ==
    [][(pc \in {"ready"} \cup Busy /\ pc' = "closed") => ~connected]_vars

\* The events of a message whose sends all succeeded: chunks only while the
\* call runs, then chunks and one last event that is done or error.
C8_Terminal ==
    \A i \in DOMAIN upstream :
        LET c == upstream[i]
            ev == EventsOf(c.frame)
        IN ~c.sendFailed =>
              IF c.status \in {"open", "streaming"}
              THEN \A n \in DOMAIN ev : ev[n].type = "chunk"
              ELSE /\ Len(ev) >= 1
                   /\ ev[Len(ev)].type \in {"done", "error"}
                   /\ \A n \in 1..(Len(ev) - 1) : ev[n].type = "chunk"

\* C8: with the client connected, a message that went upstream gets chunk
\* events and then exactly one terminal event, done or error, after which no
\* event of that message follows; and the endpoint comes back to the read of
\* the next frame (unless the client goes away).
C8_OneTerminalThenReady ==
    /\ []C8_Terminal
    /\ (pc \in Busy) ~> (pc = "ready" \/ ~connected)

C8_Witness ==
    /\ pc = "ready"
    /\ connected
    /\ \E i \in DOMAIN upstream :
          /\ upstream[i].status = "failed"
          /\ upstream[i].frags # <<>>
          /\ Len(EventsOf(upstream[i].frame)) = Len(upstream[i].frags) + 1

\* The events are in frame order, and the upstream call of an earlier frame
\* is finished and archived.
C9_Sequential ==
    /\ \A i, j \in DOMAIN out : i < j => out[i].frame <= out[j].frame
    /\ \A i \in DOMAIN out : out[i].frame <= frameNo
    /\ \A i \in DOMAIN upstream :
          upstream[i].frame < frameNo =>
             /\ upstream[i].status \notin {"open", "streaming"}
             /\ upstream[i].status = "ok" => ArchiveOf(upstream[i].frame) # <<>>

\* C9: a frame is read only when the handling of the frame before it is
\* over, with its upstream call finished and its archive call made; the
\* events of a frame all come before the events of the next frame.
C9_FramesHandledInOrder ==
    /\ []C9_Sequential
    /\ [][frameNo' # frameNo => (pc = "ready" /\ frameNo' = frameNo + 1)]_vars

C9_Witness ==
    /\ Len(upstream) = 2
    /\ upstream[1].status = "ok"
    /\ upstream[2].status = "ok"
    /\ upstream[1].frags # <<>>
    /\ upstream[2].frags # <<>>
    /\ Len(archive) = 2

\* The client went away while a message is with the upstream.
GoneMidStream == ~connected /\ pc \in {"calling", "streaming"}

\* C10 as stated: once the client is gone in the middle of a message, no
\* event is forwarded, no further fragment is taken from the upstream and
\* create_conversation is not called.

C10_NoArchive ==
    \A i \in DOMAIN upstream :
        upstream[i].sendFailed =>
           /\ ArchiveOf(upstream[i].frame) = <<>>
           /\ pc = "closed"
           /\ \A n \in DOMAIN out : out[n].type = "done" =>
                                       out[n].frame # upstream[i].frame

AppendsOf(key) ==
    SelectSeq(archive, LAMBDA a : a.session_id = key /\ ~a.raised)

\* The entries k calls should have left: user then assistant for each call,
\* in call order.
RECURSIVE EntriesOf(_)
EntriesOf(as) ==
    IF as = <<>> THEN <<>>
    ELSE <<Entry("user", Head(as).user_message),
           Entry("assistant", Head(as).assistant_message)>>
         \o EntriesOf(Tail(as))

\* C11: after k >= 1 successful create_conversation calls for one session
\* key, the persisted record of that key holds exactly the 2k entries of
\* those calls, user then assistant for each call, in call order.
C11_TwoEntriesPerCall ==
    \A a \in Range(archive) :
        AppendsOf(a.session_id) # <<>> =>
            \E i \in RowsOf(a.session_id) :
                conversations[i].messages = EntriesOf(AppendsOf(a.session_id))

\* ------------------------------------- the services called on their own
relayVars == <<connVars, pc, localVars, histVars>>

\* No websocket connection exists.
NoConnection ==
    /\ query = NoToken
    /\ cookie = NoToken
    /\ connected = FALSE
    /\ accepted = FALSE
    /\ validated = NoUser
    /\ closeCode = 0
    /\ ending = "open"
    /\ pc = "closed"
    /\ user_id = NoUser
    /\ session_key = NoKey
    /\ content = <<>>
    /\ full_response = <<>>
    /\ linesRead = 0
    /\ frameNo = 0
    /\ out = <<>>
    /\ upstream = <<>>
    /\ archive = <<>>
    /\ resolverCalls = 0

\* -------------------------- SessionService.get_or_create_session by steps
\* Concurrent callers of get_or_create_session (requests and connections
\* of any users).
MaxCallers == 2
Callers == 1..MaxCallers

\* A caller: where it is in get_or_create_session, the user it asks for,
\* what the redis get returned, the key the call returned, whether the call
\* wrote to the store, and whether the mapping of the user has stayed in
\* place since the call began.
Caller(p, u, ex, res, w, cur) ==
    [pc |-> p, user |-> u, existing |-> ex, result |-> res, wrote |-> w,
     current |-> cur]

\* Mutant of line 29: the mapping that was read is not looked at.
ExistingNever(v) == FALSE

\* Line 29: `if existing:` on the value of the redis get.
Existing(v) == v # NoKey

SessionInit ==
    /\ NoConnection
    /\ sessions = [t \in Tokens |-> NoUser]
    /\ oc_sessions = [u \in Users |-> NoKey]
    /\ redisUp = TRUE
    /\ conversations = <<>>
    /\ callers = [c \in Callers |-> Caller("idle", NoUser, NoKey, NoKey,
                                            FALSE, TRUE)]
    /\ issued = <<>>
    /\ lookups = <<>>
    /\ http = <<>>
    /\ NoOtherService

\* Lines 26-30: a call begins, reads the mapping, and returns it when there
\* is one.
SessionGet(c, u) ==
    /\ callers[c].pc \in {"idle", "done"}
    /\ callers' = [callers EXCEPT ![c] =
                      IF Existing(oc_sessions[u])
                      THEN Caller("done", u, oc_sessions[u], oc_sessions[u],
                                  FALSE, TRUE)
                      ELSE Caller("create", u, oc_sessions[u], NoKey, FALSE,
                                  TRUE)]
    /\ UNCHANGED <<storeVars, relayVars, restVars, http, issued, lookups>>

\* Lines 32-38: no mapping was read; make the key, store it, return it.
SessionSetex(c) ==
    /\ callers[c].pc = "create"
    /\ oc_sessions' = [oc_sessions EXCEPT ![callers[c].user] =
                           CreateSessionKey(callers[c].user)]
    /\ callers' = [callers EXCEPT ![c] =
                      [@ EXCEPT !.pc = "done",
                                !.result =
                                    CreateSessionKey(callers[c].user),
                                !.wrote = TRUE]]
    /\ UNCHANGED <<sessions, redisUp, conversations, relayVars, restVars, http, issued,
                   lookups>>

\* The mapping of a user goes away: the TTL of line 35 runs out, or
\* delete_session (lines 46-49) removes it.
MappingExpires(u) ==
    /\ oc_sessions[u] # NoKey
    /\ oc_sessions' = [oc_sessions EXCEPT ![u] = NoKey]
    /\ callers' = [c \in Callers |->
                      IF callers[c].user = u
                      THEN [callers[c] EXCEPT !.current = FALSE]
                      ELSE callers[c]]
    /\ UNCHANGED <<sessions, redisUp, conversations, relayVars, restVars, http, issued,
                   lookups>>

SessionNext ==
    \/ \E c \in Callers, u \in Users : SessionGet(c, u)
    \/ \E c \in Callers : SessionSetex(c)
    \/ \E u \in Users : MappingExpires(u)

SessionSpec == SessionInit /\ [][SessionNext]_vars

\* The calls that have returned.
Returned == {c \in Callers : callers[c].pc = "done"}

\* C12: all get_or_create_session calls for a user made while the stored
\* mapping has not expired return the same key, and a call that finds a
\* mapping returns that mapping without writing to the store.
C12_Idempotent ==
    /\ \A c, d \in Returned :
           (/\ callers[c].user = callers[d].user
            /\ callers[c].current
            /\ callers[d].current) => callers[c].result = callers[d].result
    /\ \A c \in Returned :
           callers[c].existing # NoKey =>
               /\ callers[c].result = callers[c].existing
               /\ ~callers[c].wrote

\* One call created the mapping, a later one found it; the mapping is still
\* in place.
C12_Witness ==
    \E c, d \in Returned :
        /\ callers[c].user = callers[d].user
        /\ callers[c].current /\ callers[d].current
        /\ callers[c].wrote
        /\ callers[d].existing # NoKey
        /\ oc_sessions[callers[c].user] = callers[d].result

\* C13: under every interleaving of concurrent get_or_create_session calls
\* for one user, with the read and the write as separate steps, every caller
\* receives the same key, and the store holds for that user no key other
\* than the one returned.
C13_OneKeyPerUser ==
    \A c \in Returned :
        /\ oc_sessions[callers[c].user] \in {NoKey, callers[c].result}
        /\ \A d \in Returned :
               callers[d].user = callers[c].user =>
                   callers[d].result = callers[c].result

\* The race: two callers both read no mapping for the same user, and both
\* wrote.
C13_Witness ==
    \E c, d \in Returned :
        /\ c # d
        /\ callers[c].user = callers[d].user
        /\ callers[c].existing = NoKey /\ callers[c].wrote
        /\ callers[d].existing = NoKey /\ callers[d].wrote

\* --------------------------------------- AuthService sessions by themselves
\* The tokens create_session can hand out, in the order it does.
MaxTokens == 2
AuthTokens == 1..MaxTokens

\* A token create_session has not returned yet; secrets.token_urlsafe(32)
\* does not repeat a token.
Fresh(t) == issued[t].user = NoUser

AuthInit ==
    /\ NoConnection
    /\ sessions = [t \in AuthTokens |-> NoUser]
    /\ oc_sessions = [u \in Users |-> NoKey]
    /\ redisUp = TRUE
    /\ conversations = <<>>
    /\ callers = <<>>
    /\ issued = [t \in AuthTokens |-> [user |-> NoUser, live |-> FALSE]]
    /\ lookups = [t \in AuthTokens |->
                     [asked |-> FALSE, result |-> NoUser, user |-> NoUser,
                      live |-> FALSE]]
    /\ http = <<>>
    /\ NoOtherService

\* Lines 45-53: a new token, stored with the user id and the TTL.
CreateSession(u) ==
    \E t \in AuthTokens :
        /\ Fresh(t)
        /\ \A t2 \in AuthTokens : Fresh(t2) => t <= t2
        /\ sessions' = [sessions EXCEPT ![t] = u]
        /\ issued' = [issued EXCEPT ![t] = [user |-> u, live |-> TRUE]]
        /\ UNCHANGED <<oc_sessions, redisUp, conversations, relayVars, restVars, http,
                       callers, lookups>>

\* Lines 55-60: get_session(token), for any token a client may present.
\* The call is recorded with what it returned and with what the token was
\* when it was made.
GetSessionCall(t) ==
    /\ lookups' = [lookups EXCEPT ![t] =
                      [asked |-> TRUE, result |-> GetSession(t),
                       user |-> issued[t].user, live |-> issued[t].live]]
    /\ UNCHANGED <<storeVars, relayVars, restVars, http, callers, issued>>

\* Mutant of delete_session: the delete names a key that does not exist.
DeleteSessionWrongKey(t) ==
    /\ ~Fresh(t)
    /\ issued' = [issued EXCEPT ![t].live = FALSE]
    /\ UNCHANGED <<storeVars, relayVars, restVars, http, callers, lookups>>

\* Lines 62-64: delete_session(token) removes the entry of the token.
DeleteSession(t) ==
    /\ ~Fresh(t)
    /\ sessions' = [sessions EXCEPT ![t] = NoUser]
    /\ issued' = [issued EXCEPT ![t].live = FALSE]
    /\ UNCHANGED <<oc_sessions, redisUp, conversations, relayVars, restVars, http, callers,
                   lookups>>

\* The TTL of line 50 (SESSION_EXPIRY_SECONDS) runs out: redis drops the
\* entry.
SessionExpires(t) ==
    /\ sessions[t] # NoUser
    /\ sessions' = [sessions EXCEPT ![t] = NoUser]
    /\ issued' = [issued EXCEPT ![t].live = FALSE]
    /\ UNCHANGED <<oc_sessions, redisUp, conversations, relayVars, restVars, http, callers,
                   lookups>>

AuthNext ==
    \/ \E u \in Users : CreateSession(u)
    \/ \E t \in AuthTokens : GetSessionCall(t)
    \/ \E t \in AuthTokens : DeleteSession(t)
    \/ \E t \in AuthTokens : SessionExpires(t)

AuthSpec == AuthInit /\ [][AuthNext]_vars

\* C14: for every token create_session returned, each get_session(token)
\* call made before the token expires or is deleted returns the user the
\* token was created for, and each call made after returns absent.
C14_TokenResolvesUntilGone ==
    \A t \in AuthTokens :
        (lookups[t].asked /\ lookups[t].user # NoUser) =>
            lookups[t].result = IF lookups[t].live THEN lookups[t].user
                                ELSE NoUser

\* One token was looked up while it was live, another after it was deleted
\* or had expired.
C14_Witness ==
    \E t, t2 \in AuthTokens :
        /\ lookups[t].asked /\ lookups[t].live
        /\ lookups[t].result \in Users
        /\ lookups[t2].asked /\ ~lookups[t2].live
        /\ lookups[t2].user \in Users
        /\ lookups[t2].result = NoUser

\* ------------------------------------------------- frames and their effect
PingFrame == Frame("object", "ping", Absent)

\* C15: a ping frame read on a Ready connection yields exactly one pong
\* event and nothing else: no upstream call, no archive call, no store
\* written, and the connection stays Ready with its session key unchanged.
C15_PingOnlyPongs ==
    [][Receive(PingFrame) =>
          /\ out' = Append(out, Pong(frameNo'))
          /\ pc = "ready" /\ pc' = "ready"
          /\ UNCHANGED <<upstream, archive, storeVars, session_key, user_id,
                         ending>>]_vars

\* A pong was the last thing sent, and the connection is Ready.
C15_Witness ==
    /\ out # <<>>
    /\ out[Len(out)] = Pong(frameNo)
    /\ pc = "ready"
    /\ session_key # NoKey

\* The message frames whose content is missing, empty or whitespace only.
EmptyFrames ==
    {Frame("object", "message", c) : c \in {Absent, Str(<<>>), Str(<<" ">>)}}

\* C16: a message frame whose content is absent, empty or whitespace-only
\* yields exactly one error event ("Empty message"), invokes neither the
\* upstream nor the archive, and leaves the connection Ready.
C16_EmptyContentOneError ==
    [][(\E f \in EmptyFrames : Receive(f)) =>
          /\ out' = Append(out, Error(frameNo', "Empty message"))
          /\ pc = "ready" /\ pc' = "ready"
          /\ UNCHANGED <<upstream, archive, conversations, session_key,
                         ending>>]_vars

\* The error of an empty message was the last thing sent, and the
\* connection is Ready.
C16_Witness ==
    /\ out # <<>>
    /\ out[Len(out)] = Error(frameNo, "Empty message")
    /\ pc = "ready"

InvalidFrame == Frame("invalid", "None", Absent)

\* C20: a text frame that json.loads cannot parse yields exactly one error
\* event ("Invalid JSON"), invokes neither the upstream nor the archive, and
\* leaves the connection open and Ready.
C20_InvalidJsonOneError ==
    [][Receive(InvalidFrame) =>
          /\ out' = Append(out, Error(frameNo', "Invalid JSON"))
          /\ pc = "ready" /\ pc' = "ready"
          /\ UNCHANGED <<upstream, archive, conversations, session_key,
                         ending, closeCode>>]_vars

\* The error of an unparseable frame was the last thing sent, and the
\* connection is Ready.
C20_Witness ==
    /\ out # <<>>
    /\ out[Len(out)] = Error(frameNo, "Invalid JSON")
    /\ pc = "ready"
    /\ ending = "open"

\* The calls of send_message that ended by a timeout (or transport error)
\* of the request while the client was there to take the error event.
TimedOut == {i \in DOMAIN upstream : /\ upstream[i].status = "failed"
                                      /\ ~upstream[i].sendFailed}

\* The connection goes on after the answer to frame k: the loop is back at
\* the read, or ended there because the client went away.
GoesOnAfter(k) ==
    frameNo = k => \/ pc = "ready"
                   \/ pc = "closed" /\ ending = "disconnect"

\* C17: an upstream timeout surfaces as the typed upstream error, so the
\* last event of the message is the "Failed to get response from AI" error,
\* and the connection continues in Ready.
C17_TimeoutIsUpstreamFailure ==
    \A i \in TimedOut :
        LET ev == EventsOf(upstream[i].frame)
        IN /\ ev # <<>>
           /\ ev[Len(ev)] = Error(upstream[i].frame,
                                  ErrorMessageFor("OpenClawAPIException"))
           /\ GoesOnAfter(upstream[i].frame)

\* C17 as the code has it: an upstream timeout reaches the relay as an
\* exception other than the typed upstream error, so the last event of the
\* message is the "Internal server error" event, no done event is sent, the
\* archive is not called, and the connection continues in Ready.
C17_TimeoutIsInternalError ==
    \A i \in TimedOut :
        LET ev == EventsOf(upstream[i].frame)
        IN /\ ev # <<>>
           /\ ev[Len(ev)] = Error(upstream[i].frame, "Internal server error")
           /\ \A j \in 1..(Len(ev) - 1) : ev[j].type = "chunk"
           /\ ArchiveOf(upstream[i].frame) = <<>>
           /\ GoesOnAfter(upstream[i].frame)

\* A request timed out, its error event was sent, and the loop is back at
\* the read.
C17_Witness ==
    \E i \in TimedOut :
        /\ frameNo = upstream[i].frame
        /\ pc = "ready"
        /\ connected
        /\ EventsOf(upstream[i].frame) # <<>>

\* C19: if the session store is unavailable while the token of a connection
\* request is validated, the connection is never accepted, never reaches
\* Ready as any user, and no inbound frame is processed.
C19_StoreDownNeverAccepted ==
    ~redisUp =>
        /\ ~accepted
        /\ pc \in {"connecting", "closed"}
        /\ validated = NoUser
        /\ user_id = NoUser
        /\ session_key = NoKey
        /\ frameNo = 0
        /\ out = <<>>
        /\ upstream = <<>>
        /\ archive = <<>>

\* A request that presented the token of a live session ended at the lookup
\* because the store did not answer.
C19_Witness ==
    /\ ~redisUp
    /\ ChosenToken(query, cookie) = "t1"
    /\ pc = "closed"
    /\ ending = "error"
    /\ ~accepted

\* ------------------------------ the relay with the session store changing
\* A key some other writer stores for the user.
OtherKey == "bluefairy:other"

\* While the connection is open the mapping of its user expires or is
\* deleted (sessions.py lines 11 and 46-49), is created again (lines 32-36),
\* or is rewritten with another key.
MappingChanges(v) ==
    /\ pc \in {"ready"} \cup Busy
    /\ v # oc_sessions[user_id]
    /\ oc_sessions' = [oc_sessions EXCEPT ![user_id] = v]
    /\ UNCHANGED <<svcVars, sessions, redisUp, conversations, connVars, pc,
                   localVars, histVars>>

\* The frames and response lines of the connections of this specification.
ChurnFrames == {PingFrame, Frame("object", "message", Str(<<"h">>))}
ChurnLines == {RawLine(<<"x">>)}

\* One connection that presents the token of a live session, the stores up.
ChurnInit ==
    /\ Init
    /\ redisUp
    /\ query = "t1"
    /\ cookie = NoToken

ChurnNext ==
    \/ Authenticate
    \/ ResolveSession
    \/ \E f \in ChurnFrames : Receive(f)
    \/ ReceiveDisconnect
    \/ \E r \in {"ok", "http_error", "failed"} : UpstreamRespond(r)
    \/ \E l \in ChurnLines : StreamLine(l)
    \/ StreamEnd
    \/ StreamFail
    \/ Persist
    \/ ClientDisconnect
    \/ \E v \in {NoKey, CreateSessionKey(user_id), OtherKey} :
           MappingChanges(v)

ChurnSpec == ChurnInit /\ [][ChurnNext]_vars

\* C18: get_or_create_session is called exactly once per authenticated
\* connection, before the first frame is read, and every upstream request
\* and every archive write of the connection uses the key that call
\* returned, whatever happens to the mapping of the user meanwhile.
C18_OneKeyPerConnection ==
    /\ resolverCalls <= 1
    /\ (accepted /\ pc # "accepted") => resolverCalls = 1
    /\ frameNo > 0 => resolverCalls = 1 /\ session_key # NoKey
    /\ \A i \in DOMAIN upstream : upstream[i].key = session_key
    /\ \A j \in DOMAIN archive : archive[j].session_id = session_key

\* A message was sent upstream and archived under the key of the connection
\* while the store held another key, or none, for the user.
C18_Witness ==
    \E i \in DOMAIN upstream :
        /\ upstream[i].stored # upstream[i].key
        /\ upstream[i].key = session_key
        /\ ArchiveOf(upstream[i].frame) # <<>>
        /\ oc_sessions[user_id] # session_key
        /\ resolverCalls = 1

\* The parsed frames whose type is neither "ping" nor "message"; "None" is
\* the frame without a type field.
UnknownFrames ==
    {f \in Frames : f.json = "object" /\ f.type \notin {"ping", "message"}}

\* C21: a parsed frame whose type is neither ping nor message (a frame
\* without a type field included) yields exactly one error event whose
\* message names that type, invokes neither the upstream nor the archive,
\* and leaves the connection Ready.
C21_UnknownTypeOneError ==
    [][\A f \in UnknownFrames :
          Receive(f) =>
              /\ out' = Append(out, Error(frameNo', "Unknown message type: "
                                                     \o f.type))
              /\ pc = "ready" /\ pc' = "ready"
              /\ UNCHANGED <<upstream, archive, conversations, session_key,
                             ending, closeCode>>]_vars

\* The error that names the type "subscribe" was the last thing sent, and
\* the connection is Ready.
C21_Witness ==
    /\ out # <<>>
    /\ out[Len(out)] = Error(frameNo, "Unknown message type: subscribe")
    /\ pc = "ready"
    /\ ending = "open"

\* ------------------------------------- send_message reading response lines
\* The lines a response can hold: every kind of line, and for a JSON object
\* every combination of a missing, an empty and a non-empty value under
\* "text", "content" and "chunk", plus null and a number.
ObjectLines ==
    {JObjLine(tx, co, ch) : tx \in {Absent, Str(<<>>), Str(<<"t">>)},
                            co \in {Absent, Str(<<>>), Str(<<"c">>)},
                            ch \in {Absent, Str(<<>>), Str(<<"k">>)}}
    \cup {JObjLine(Null, Str(<<"c">>), Absent), JObjLine(Absent, Num, Absent)}

ResponseLines ==
    {NonDataLine, EmptyLine, RawLine(<<" ">>), RawLine(<<"x">>),
     RawLine(<<" ", "x", " ">>), JStrLine(<<"s">>), JStrLine(<<>>),
     JOtherLine} \cup ObjectLines

\* A response of up to MaxLines lines; nothing read yet.
LineInit ==
    /\ NoConnection
    /\ sessions = [t \in Tokens |-> NoUser]
    /\ oc_sessions = [u \in Users |-> NoKey]
    /\ redisUp = TRUE
    /\ conversations = <<>>
    /\ callers = <<>>
    /\ issued = <<>>
    /\ lookups = <<>>
    /\ http = <<>>
    /\ response \in UNION {[1..n -> ResponseLines] : n \in 0..MaxLines}
    /\ fragments = <<>>
    /\ writers = <<>>
    /\ oauth_states = <<>>
    /\ connectors = {}
    /\ callbacks = <<>>

\* Lines 53-74 for the next line of the response: the fragment it yields, if
\* any, is noted with the number of the line.
ReadLine ==
    /\ linesRead < Len(response)
    /\ linesRead' = linesRead + 1
    /\ fragments' =
           IF LineFragment(response[linesRead + 1]) = NoFrag THEN fragments
           ELSE Append(fragments,
                       [line |-> linesRead + 1,
                        frag |-> LineFragment(response[linesRead + 1])])
    /\ UNCHANGED <<storeVars, connVars, pc, user_id, session_key, content,
                   full_response, histVars, callers, issued, lookups, http,
                   response, writers, oauthVars>>

LineNext == ReadLine

LineSpec == LineInit /\ [][LineNext]_vars

\* What was yielded for line i.
YieldedFor(i) == SelectSeq(fragments, LAMBDA y : y.line = i)

\* The object lines read so far.
ObjectsRead == {i \in 1..linesRead : response[i].data /\ response[i].p = "jobj"}

\* The value of the first of text, content, chunk that is there.
FirstPresent(line) ==
    IF line.text.t # "absent" THEN line.text
    ELSE IF line.content.t # "absent" THEN line.content
    ELSE IF line.chunk.t # "absent" THEN line.chunk
    ELSE Absent

\* C22: for a data line whose payload decodes to an object, send_message
\* takes the value of the first field present among text, content, chunk and
\* yields it if and only if it is non-empty; when that field is empty,
\* nothing is yielded for the line, even if a later field is non-empty.
C22_FirstPresentField ==
    \A i \in ObjectsRead :
        YieldedFor(i) = IF Truthy(FirstPresent(response[i]))
                        THEN <<[line |-> i, frag |-> FirstPresent(response[i])]>>
                        ELSE <<>>

\* The values under text, content and chunk that Python takes for true, in
\* that order.
TruthyFields(line) ==
    SelectSeq(<<line.text, line.content, line.chunk>>, Truthy)

\* C22 as the code has it: for such a line send_message yields the first
\* value among text, content, chunk (in that order) that is non-empty, and
\* nothing when none of the three is; an empty or null field is passed over
\* for the next one.
C22_FirstNonEmptyField ==
    \A i \in ObjectsRead :
        YieldedFor(i) = IF TruthyFields(response[i]) = <<>> THEN <<>>
                        ELSE <<[line |-> i,
                                frag |-> Head(TruthyFields(response[i]))]>>

\* A line with an empty "text" and a non-empty "content" was read, and the
\* content was yielded.
C22_Witness ==
    \E i \in ObjectsRead :
        /\ response[i].text = Str(<<>>)
        /\ response[i].content = Str(<<"c">>)
        /\ YieldedFor(i) = <<[line |-> i, frag |-> Str(<<"c">>)]>>

\* The data lines among the lines read so far.
DataLinesRead == {i \in 1..linesRead : response[i].data}

\* C23: send_message maps the response lines to fragments line by line and
\* in order: a line without the data marker yields nothing, a data line with
\* an empty payload yields nothing, a payload that fails to decode yields
\* the raw (stripped) payload as one fragment, a payload that decodes to a
\* string yields that string; so there are never more fragments than data
\* lines, and the fragments are in the order of their lines.
C23_LineByLine ==
    /\ \A i \in 1..linesRead :
           LET line == response[i]
               one(f) == <<[line |-> i, frag |-> f]>>
           IN /\ ~line.data => YieldedFor(i) = <<>>
              /\ (line.data /\ line.p = "empty") => YieldedFor(i) = <<>>
              /\ (line.data /\ line.p = "raw") =>
                     YieldedFor(i) = IF Strip(line.v) = <<>> THEN <<>>
                                     ELSE one(Str(Strip(line.v)))
              /\ (line.data /\ line.p = "jstr") =>
                     YieldedFor(i) = one(Str(line.v))
    /\ Len(fragments) <= Cardinality(DataLinesRead)
    /\ \A j, k \in DOMAIN fragments :
           j < k => fragments[j].line < fragments[k].line
    /\ \A j \in DOMAIN fragments : fragments[j].line \in DataLinesRead

\* A line without the marker and a data line with a padded plain-text
\* payload were read, in that order; only the second yielded, stripped.
C23_Witness ==
    /\ linesRead = 2
    /\ response[1] = NonDataLine
    /\ response[2] = RawLine(<<" ", "x", " ">>)
    /\ fragments = <<[line |-> 2, frag |-> Str(<<"x">>)]>>

\* ------------------------------------------------------------- sign-in
\* The users table: one row per registered email, with the user id and the
\* bcrypt hash of the password.  A hash is kept as the password it was made
\* of, tagged; verifying is hashing again and comparing.
HashPassword(pw) == <<"bcrypt", pw>>

users_table ==
    [e \in {"u1@x", "u2@x"} |->
        IF e = "u1@x" THEN [id |-> "u1", hashed_password |-> HashPassword("p1")]
        ELSE [id |-> "u2", hashed_password |-> HashPassword("p2")]]

\* What a client can type into the sign-in form.
Emails == {"u1@x", "u2@x", "nobody@x"}
Passwords == {"p1", "p2", "guess"}

\* AuthService.verify_password
VerifyPassword(pw, hashed) == hashed = HashPassword(pw)

\* Mutant of authenticate_user: the password is not verified.
AuthenticateUserNoPassword(email, pw) ==
    IF email \notin DOMAIN users_table THEN NoUser
    ELSE users_table[email].id

\* AuthService.authenticate_user: the user id of the row, or NoUser.
AuthenticateUser(email, pw) ==
    IF email \notin DOMAIN users_table THEN NoUser
    ELSE IF ~VerifyPassword(pw, users_table[email].hashed_password)
         THEN NoUser
    ELSE users_table[email].id

HTTP_200_OK == 200
HTTP_401_UNAUTHORIZED == 401

\* No token is stored and no request was answered; for each token the model
\* notes the email and password of the sign-in that made it.
SigninInit ==
    /\ NoConnection
    /\ sessions = [t \in AuthTokens |-> NoUser]
    /\ oc_sessions = [u \in Users |-> NoKey]
    /\ redisUp = TRUE
    /\ conversations = <<>>
    /\ callers = <<>>
    /\ issued = [t \in AuthTokens |->
                    [user |-> NoUser, live |-> FALSE, email |-> "",
                     password |-> ""]]
    /\ lookups = [t \in AuthTokens |->
                     [asked |-> FALSE, result |-> NoUser, user |-> NoUser,
                      live |-> FALSE]]
    /\ http = [status |-> 0, access_token |-> 0]
    /\ NoOtherService

\* POST /sign-in, lines 49-58: 401 when authenticate_user finds no user,
\* else a new session token for that user.
Signin(email, pw) ==
    IF AuthenticateUser(email, pw) = NoUser
    THEN /\ http' = [status |-> HTTP_401_UNAUTHORIZED, access_token |-> 0]
         /\ UNCHANGED <<storeVars, relayVars, restVars, callers, issued,
                        lookups>>
    ELSE \E t \in AuthTokens :
            /\ Fresh(t)
            /\ \A t2 \in AuthTokens : Fresh(t2) => t <= t2
            /\ sessions' = [sessions EXCEPT ![t] =
                               AuthenticateUser(email, pw)]
            /\ issued' = [issued EXCEPT ![t] =
                             [user |-> AuthenticateUser(email, pw),
                              live |-> TRUE, email |-> email,
                              password |-> pw]]
            /\ http' = [status |-> HTTP_200_OK, access_token |-> t]
            /\ UNCHANGED <<oc_sessions, redisUp, conversations, relayVars,
                           restVars, callers, lookups>>

SigninNext ==
    \/ \E e \in Emails, pw \in Passwords : Signin(e, pw)
    \/ \E t \in AuthTokens : GetSessionCall(t)
    \/ \E t \in AuthTokens : DeleteSession(t)
    \/ \E t \in AuthTokens : SessionExpires(t)

SigninSpec == SigninInit /\ [][SigninNext]_vars

\* The credentials are those of a registered user.
GoodCredentials(email, pw) ==
    /\ email \in {"u1@x", "u2@x"}
    /\ pw = (IF email = "u1@x" THEN "p1" ELSE "p2")

\* Every stored token was made by a sign-in with good credentials, and maps
\* to the user of those credentials.
StoredTokensVerified ==
    \A t \in AuthTokens :
        sessions[t] # NoUser =>
            /\ GoodCredentials(issued[t].email, issued[t].password)
            /\ sessions[t] = (IF issued[t].email = "u1@x" THEN "u1" ELSE "u2")

\* A sign-in with an unknown email or a wrong password answers 401 and
\* leaves the session store as it was.
FailedSigninWritesNothing ==
    \A e \in Emails, pw \in Passwords :
        (~GoodCredentials(e, pw) /\ Signin(e, pw)) =>
            /\ http'.status = HTTP_401_UNAUTHORIZED
            /\ sessions' = sessions

MaxWriters == 2
Writers == 1..MaxWriters

\* A writer: where it is in create_conversation, the user of its
\* connection, whether the lookup found a row, and how the call ended.
Writer(p, u, ex, res) ==
    [pc |-> p, user |-> u, existing |-> ex, outcome |-> res]

ArchiveInit ==
    /\ NoConnection
    /\ sessions = [t \in Tokens |-> NoUser]
    /\ oc_sessions = [u \in Users |-> CreateSessionKey(u)]
    /\ redisUp = TRUE
    /\ conversations = <<>>
    /\ callers = <<>>
    /\ issued = <<>>
    /\ lookups = <<>>
    /\ http = <<>>
    /\ response = <<>>
    /\ fragments = <<>>
    /\ writers = [w \in Writers |-> Writer("idle", NoUser, FALSE, "none")]
    /\ oauth_states = <<>>
    /\ connectors = {}
    /\ callbacks = <<>>

\* Line 27, get_by_session_id: scalar_one_or_none raises when several rows
\* have the session key, else the call goes on with the row or with none.
ArchiveLookup(w, u) ==
    /\ writers[w].pc \in {"idle", "done"}
    /\ writers' = [writers EXCEPT ![w] =
                      IF Cardinality(RowsOf(CreateSessionKey(u))) > 1
                      THEN Writer("done", u, FALSE, "raised")
                      ELSE Writer("found", u,
                                  RowsOf(CreateSessionKey(u)) # {}, "none")]
    /\ UNCHANGED <<storeVars, relayVars, callers, issued, lookups, http,
                   lineVars, oauthVars>>

\* Lines 34-46: append to the row that was found, or create one.
ArchiveWrite(w) ==
    /\ writers[w].pc = "found"
    /\ conversations' = CreateOrAppend(writers[w].existing, writers[w].user,
                                       CreateSessionKey(writers[w].user),
                                       <<"h">>, <<"x">>)
    /\ writers' = [writers EXCEPT ![w] =
                      Writer("done", writers[w].user, writers[w].existing,
                             "ok")]
    /\ UNCHANGED <<sessions, oc_sessions, redisUp, relayVars, callers,
                   issued, lookups, http, lineVars, oauthVars>>

ArchiveNext ==
    \/ \E w \in Writers, u \in Users : ArchiveLookup(w, u)
    \/ \E w \in Writers : ArchiveWrite(w)

ArchiveSpec == ArchiveInit /\ [][ArchiveNext]_vars

\* C25: at every moment at most one conversation record exists per session
\* key, under every interleaving of create_conversation calls of two
\* connections of one user (each a lookup step, then a create-or-append
\* step); so a later lookup by the key finds zero or one record.
C25_OneRecordPerKey ==
    /\ \A u \in Users : Cardinality(RowsOf(CreateSessionKey(u))) <= 1
    /\ \A w \in Writers : writers[w].outcome # "raised"

\* The token names a live session of a user.
ValidToken(t) == t \in Tokens /\ sessions[t] \in Users

\* C26: the token of a connection is the query parameter whenever that is
\* present and non-empty, and the cookie only when it is not: with an invalid
\* query token and a valid cookie the connection is rejected, and with no or
\* an empty query token and a valid cookie it is authenticated as the user
\* of the cookie.  (Stated for requests the endpoint has answered and whose
\* inputs it still holds, the session store being up.)
C26_QueryBeforeCookie ==
    (pc # "connecting" /\ query # Forgotten /\ redisUp) =>
        /\ ~Falsy(query) =>
              /\ accepted <=> ValidToken(query)
              /\ accepted => user_id = sessions[query]
              /\ ~accepted => closeCode = WS_1008_POLICY_VIOLATION
        /\ Falsy(query) =>
              /\ accepted <=> ValidToken(cookie)
              /\ accepted => user_id = sessions[cookie]
              /\ ~accepted => closeCode = WS_1008_POLICY_VIOLATION

\* A request with an invalid query token and a valid cookie was rejected.
C26_Witness ==
    /\ query = "tx"
    /\ cookie = "t1"
    /\ ValidToken(cookie)
    /\ pc = "closed"
    /\ ~accepted
    /\ closeCode = WS_1008_POLICY_VIOLATION

\* C27: for one user every get_or_create_session call returns the same key,
\* calls made after the mapping expired or was deleted included, because a
\* key made again is derived from the user id alone; two different users
\* never receive the same key.
C27_KeyDerivedFromUser ==
    \A c, d \in Returned :
        callers[c].user = callers[d].user <=>
            callers[c].result = callers[d].result

\* One call returned before the mapping of the user went away, and another
\* made the mapping again afterwards.
C27_Witness ==
    \E c, d \in Returned :
        /\ callers[c].user = callers[d].user
        /\ ~callers[c].current
        /\ callers[d].current /\ callers[d].wrote
        /\ callers[c].result = callers[d].result
        /\ oc_sessions[callers[d].user] = callers[d].result

\* ------------------------------ the relay with the session token going away
\* Mutant: the relay is told of the deletion and closes the connections of
\* the token.
RevokeTokenClosing(t) ==
    /\ pc \in {"ready"} \cup Busy
    /\ sessions[t] = user_id
    /\ sessions' = [sessions EXCEPT ![t] = NoUser]
    /\ pc' = "closed"
    /\ ending' = "rejected"
    /\ closeCode' = WS_1008_POLICY_VIOLATION
    /\ UNCHANGED <<svcVars, oc_sessions, redisUp, conversations, query,
                   cookie, connected, accepted, validated, localVars,
                   histVars>>

\* While the connection is open, the session token it was authenticated
\* with is deleted (auth.py lines 62-64) or expires (line 50): the entry
\* leaves the store, and nothing tells the endpoint.
RevokeToken(t) ==
    /\ pc \in {"ready"} \cup Busy
    /\ sessions[t] = user_id
    /\ sessions' = [sessions EXCEPT ![t] = NoUser]
    /\ UNCHANGED <<svcVars, oc_sessions, redisUp, conversations, connVars,
                   pc, localVars, histVars>>

RevokeNext ==
    \/ Authenticate
    \/ ResolveSession
    \/ \E f \in ChurnFrames : Receive(f)
    \/ ReceiveDisconnect
    \/ \E r \in {"ok", "http_error", "failed"} : UpstreamRespond(r)
    \/ \E l \in ChurnLines : StreamLine(l)
    \/ StreamEnd
    \/ StreamFail
    \/ Persist
    \/ ClientDisconnect
    \/ \E t \in Tokens : RevokeToken(t)

RevokeSpec == ChurnInit /\ [][RevokeNext]_vars

\* An accepted connection ends only when its client is gone, a message sent
\* when the user had no token left is streamed and answered like any other,
\* and a new request with the token that is gone would be rejected.
OpenWhateverTheToken ==
    /\ accepted => /\ closeCode = 0
                   /\ ending # "rejected"
                   /\ pc = "closed" => ~connected
    /\ \A i \in DOMAIN upstream :
           LET c == upstream[i]
           IN (~c.live /\ c.status = "ok" /\ ~c.sendFailed) =>
                 /\ c.key = session_key
                 /\ EventsOf(c.frame) =
                        ChunkEvents(c) \o <<Done(c.frame, Concat(c.frags))>>
    /\ ~ValidToken("t1") => /\ AuthenticateWs("t1", NoToken) = NoUser
                            /\ AuthenticateWs(NoToken, "t1") = NoUser

\* A ping read when the token is gone is answered with a pong.
PingAnsweredWithoutToken ==
    (~ValidToken("t1") /\ Receive(PingFrame)) =>
        /\ out' = Append(out, Pong(frameNo'))
        /\ pc' = "ready"

\* C28: authentication is checked at connection start only: once a
\* connection is Ready, deleting or expiring its session token neither
\* closes it nor changes how its later frames are handled; only new
\* connection requests with that token are rejected.
C28_AuthenticatedOnce ==
    []OpenWhateverTheToken /\ [][PingAnsweredWithoutToken]_vars

\* A message that arrived after the token of the connection was gone was
\* streamed, answered with done and archived, and the connection is Ready.
C28_Witness ==
    /\ ~ValidToken("t1")
    /\ pc = "ready"
    /\ connected
    /\ \E i \in DOMAIN upstream :
           /\ ~upstream[i].live
           /\ upstream[i].status = "ok"
           /\ upstream[i].frags # <<>>
           /\ ArchiveOf(upstream[i].frame) # <<>>

\* ---------------------------------------------------------------------------
\* A response without fragments (ws.py 93-116)
\* ---------------------------------------------------------------------------

\* The calls whose stream ended normally without a fragment and whose done
\* event reached the client.
EmptyStreams ==
    {i \in DOMAIN upstream : /\ upstream[i].status = "ok"
                             /\ upstream[i].frags = <<>>
                             /\ ~upstream[i].sendFailed}

\* C29: when the upstream stream of a message ends normally without
\* yielding a fragment, the relay emits no chunk event and exactly one done
\* event, whose fullContent is empty, and still invokes the archive once,
\* with an empty assistant message.
C29_EmptyStreamDoneAndArchived ==
    \A i \in EmptyStreams :
        LET k == upstream[i].frame
        IN /\ \A j \in DOMAIN out :
                  out[j].frame = k => out[j].type # "chunk"
           /\ Cardinality({j \in DOMAIN out :
                              out[j].frame = k /\ out[j].type = "done"}) = 1
           /\ \A j \in DOMAIN out :
                  (out[j].frame = k /\ out[j].type = "done") =>
                      out[j].content = <<>>
           /\ ~(pc = "archiving" /\ k = frameNo) =>
                  /\ Cardinality({j \in DOMAIN archive :
                                     archive[j].frame = k}) = 1
                  /\ \A j \in DOMAIN archive :
                         archive[j].frame = k =>
                             archive[j].assistant_message = <<>>

\* A stream that ended without a fragment was answered with done and
\* archived with an empty assistant message, and the connection is Ready.
C29_Witness ==
    /\ pc = "ready"
    /\ \E i \in EmptyStreams :
           /\ EventsOf(upstream[i].frame) = <<Done(upstream[i].frame, <<>>)>>
           /\ \E j \in DOMAIN archive :
                  /\ archive[j].frame = upstream[i].frame
                  /\ archive[j].assistant_message = <<>>

\* ---------------------------------------------------------------------------
\* The OAuth state of the connector endpoints (endpoints/auth.py 61-188)
\* ---------------------------------------------------------------------------

MaxStates == 2
MaxCallbacks == 2

\* The values secrets.token_urlsafe(32) returns at line 76, in the order of
\* the calls; no value is returned twice.
OAuthStates == 1..MaxStates

\* A state no connect request has issued (also the absent query parameter).
NoState == 0

\* The {provider} of the path: the two the endpoints know, and another one.
Providers == {"google", "microsoft", "other"}
SupportedProviders == {"google", "microsoft"}

\* A callback request: the provider and state it presents, the value line
\* 124 read for the state, where the handler is, whether line 181 stored
\* credentials, and its result.
Callback(p, prov, s, u, st, res) ==
    [pc |-> p, provider |-> prov, state |-> s, got |-> u, stored |-> st,
     result |-> res]

OAuthInit ==
    /\ NoConnection
    /\ sessions = [t \in Tokens |-> NoUser]
    /\ oc_sessions = [u \in Users |-> NoKey]
    /\ redisUp \in BOOLEAN
    /\ conversations = <<>>
    /\ callers = <<>>
    /\ issued = <<>>
    /\ lookups = <<>>
    /\ http = [status |-> 0, state |-> NoState]
    /\ response = <<>>
    /\ fragments = <<>>
    /\ writers = <<>>
    /\ oauth_states = [s \in OAuthStates |-> NoUser]
    /\ connectors = {}
    /\ callbacks = <<>>

\* Lines 66-111, connect_connector_provider. A request without a user
\* fails at lines 68-74 and a store that is down fails line 78; line 78
\* writes the state before lines 82-104 look at the provider, and line 109
\* turns every exception, the 400 of line 104 included, into a 500.
Connect(u, prov) ==
    /\ Len(issued) < MaxStates
    /\ IF u = NoUser \/ ~redisUp
       THEN /\ http' = [status |-> 500, state |-> NoState]
            /\ UNCHANGED <<issued, oauth_states>>
       ELSE LET state == Len(issued) + 1
            IN /\ oauth_states' = [oauth_states EXCEPT ![state] = u]
               /\ issued' = Append(issued, [state |-> state, user |-> u])
               /\ http' = IF prov \in SupportedProviders
                          THEN [status |-> 302, state |-> state]
                          ELSE [status |-> 500, state |-> NoState]
    /\ UNCHANGED <<storeVars, relayVars, callers, lookups, lineVars, writers,
                   connectors, callbacks>>

\* The value redis_client.get returns at line 124 for a state.
StateValue(s) == IF s \in OAuthStates THEN oauth_states[s] ELSE NoUser

\* Mutant of line 128: the state is not deleted.
CallbackBeginNoDelete(prov, s) ==
    /\ Len(callbacks) < MaxCallbacks
    /\ callbacks' = Append(callbacks,
           IF ~redisUp \/ StateValue(s) = NoUser
           THEN Callback("done", prov, s, NoUser, FALSE, "callback_failed")
           ELSE Callback("exchanging", prov, s, StateValue(s), FALSE, "none"))
    /\ UNCHANGED <<storeVars, relayVars, callers, issued, lookups, http,
                   lineVars, writers, oauth_states, connectors>>

\* Lines 123-128 of connector_provider_callback, which no await divides:
\* the state is read, decode raises on None (a state that is not in the
\* store), and the state is deleted. Line 186 returns callback_failed for
\* every exception.
CallbackBegin(prov, s) ==
    /\ Len(callbacks) < MaxCallbacks
    /\ IF ~redisUp \/ StateValue(s) = NoUser
       THEN /\ callbacks' = Append(callbacks,
                Callback("done", prov, s, NoUser, FALSE, "callback_failed"))
            /\ oauth_states' = oauth_states
       ELSE /\ callbacks' = Append(callbacks,
                Callback("exchanging", prov, s, StateValue(s), FALSE, "none"))
            /\ oauth_states' = [oauth_states EXCEPT ![s] = NoUser]
    /\ UNCHANGED <<storeVars, relayVars, callers, issued, lookups, http,
                   lineVars, writers, connectors>>

\* Lines 130-188: the token exchange, which raises or answers (ok); the
\* credentials are stored under the provider and the user of the state and
\* the request is redirected. Another provider raises at line 179.
CallbackFinish(c, ok) ==
    /\ c \in DOMAIN callbacks
    /\ callbacks[c].pc = "exchanging"
    /\ IF callbacks[c].provider \in SupportedProviders /\ ok
       THEN /\ connectors' = connectors \cup
                   {<<callbacks[c].provider, callbacks[c].got>>}
            /\ callbacks' = [callbacks EXCEPT ![c] =
                   Callback("done", callbacks[c].provider, callbacks[c].state,
                            callbacks[c].got, TRUE, "redirect")]
       ELSE /\ connectors' = connectors
            /\ callbacks' = [callbacks EXCEPT ![c] =
                   Callback("done", callbacks[c].provider, callbacks[c].state,
                            callbacks[c].got, FALSE, "callback_failed")]
    /\ UNCHANGED <<storeVars, relayVars, callers, issued, lookups, http,
                   lineVars, writers, oauth_states>>

\* The ex=600 of line 78: the store drops a state nobody redeemed.
StateExpires(s) ==
    /\ oauth_states[s] # NoUser
    /\ oauth_states' = [oauth_states EXCEPT ![s] = NoUser]
    /\ UNCHANGED <<storeVars, relayVars, callers, issued, lookups, http,
                   lineVars, writers, connectors, callbacks>>

OAuthNext ==
    \/ \E u \in Users \cup {NoUser}, prov \in Providers : Connect(u, prov)
    \/ \E prov \in Providers, s \in OAuthStates \cup {NoState} :
           CallbackBegin(prov, s)
    \/ \E c \in 1..MaxCallbacks, ok \in BOOLEAN : CallbackFinish(c, ok)
    \/ \E s \in OAuthStates : StateExpires(s)

OAuthSpec == OAuthInit /\ [][OAuthNext]_vars

\* The callbacks that read a user for the state they presented.
Redeemers(s) ==
    {c \in DOMAIN callbacks : callbacks[c].state = s
                              /\ callbacks[c].got # NoUser}

\* C30: a state issued by the connect endpoint is redeemed by at most one
\* callback: the first callback presenting it removes it, and every later
\* callback presenting it, like a callback presenting a state that was
\* never issued or has expired, stores no provider credentials for any
\* user and returns the callback-failed result.
C30_StateRedeemedOnce ==
    /\ \A s \in OAuthStates \cup {NoState} : Cardinality(Redeemers(s)) <= 1
    /\ \A c \in DOMAIN callbacks :
          /\ callbacks[c].got # NoUser =>
                /\ oauth_states[callbacks[c].state] = NoUser
                /\ \E i \in DOMAIN issued :
                       /\ issued[i].state = callbacks[c].state
                       /\ issued[i].user = callbacks[c].got
                /\ \A d \in DOMAIN callbacks :
                       (d > c /\ callbacks[d].state = callbacks[c].state) =>
                           callbacks[d].got = NoUser
          /\ callbacks[c].got = NoUser =>
                /\ ~callbacks[c].stored
                /\ callbacks[c].pc = "done"
                /\ callbacks[c].result = "callback_failed"
    /\ \A cr \in connectors :
          \E c \in DOMAIN callbacks :
              /\ callbacks[c].stored
              /\ callbacks[c].got # NoUser
              /\ cr = <<callbacks[c].provider, callbacks[c].got>>

\* The first callback presenting an issued state stored the credentials of
\* its user, and a later callback presenting the same state failed.
C30_Witness ==
    /\ Len(callbacks) = 2
    /\ callbacks[1].state \in OAuthStates
    /\ callbacks[1].stored
    /\ callbacks[2].state = callbacks[1].state
    /\ callbacks[2].result = "callback_failed"
    /\ Cardinality(connectors) = 1

\* ---------------------------------------------------------------------------
\* A connect request for another provider (endpoints/auth.py 61-111)
\* ---------------------------------------------------------------------------

\* C31: a connect request for a provider other than google or microsoft is
\* rejected with status 400 and leaves the store unchanged: no OAuth state
\* entry is written for it.
C31_UnsupportedProviderRejected ==
    [][\A u \in Users, prov \in Providers \ SupportedProviders :
          (redisUp /\ Connect(u, prov)) =>
              /\ http'.status = 400
              /\ oauth_states' = oauth_states]_vars

=============================================================================
